---- MODULE Spec2Model ----
(***************************************************************************)
(* Model of src/db_adapters/balance_changes.rs: the balance-change         *)
(* extraction of one block (store_balance_changes), run as one task per    *)
(* shard over a shared, lock-guarded LRU cache of previous balances.       *)
(*                                                                         *)
(* A step of a shard task runs from one await point to the next: the       *)
(* awaits are the two lock().await (lines 227, 247), the remote query      *)
(* (line 231) and the storage insert (line 59).                            *)
(***************************************************************************)
EXTENDS Integers, Sequences, FiniteSets, TLC

\* ---------------------------------------------------------------- bounds
\* shards of a block
NumShards == 2
\* blocks handed to store_balance_changes in a run
MaxBlocks == 2
\* state changes of a block, shared out evenly among its shards
MaxStateChanges == 2
\* transactions of a block, shared out evenly among its shards
MaxTransactions == 2
\* entries the cache holds
CacheCapacity == 1
\* state changes and transactions read in a run, over all blocks and shards
MaxEvents == 3
\* records of the longest batch a shard task hands to chunked_insert
MaxBatchLen == 23

\* u128 / i128 are modelled with UBits bits instead of 128
UBits == 4
\* sub-batch size handed to chunked_insert
ChunkSize == 10

Shards == 1..NumShards
Accounts == {"a", "b"}

\* ------------------------------------------------------------ arithmetic
Modulus == 2 ^ UBits
Half == 2 ^ (UBits - 1)
u128 == 0..(Modulus - 1)

\* `x as i128` for x: u128 (two's complement reinterpretation)
as_i128(x) == IF x >= Half THEN x - Modulus ELSE x

\* does the exact result x leave the i128 range
i128_overflows(x) == x < 0 - Half \/ x >= Half

\* the i128 a wrapping operation yields for the exact result x
wrapping_i128(x) == ((x + Half + 2 * Modulus) % Modulus) - Half

\* does the exact result x leave the u128 range
u128_overflows(x) == x < 0 \/ x >= Modulus

\* the u128 a wrapping operation yields for the exact result x
wrapping_u128(x) == (x + 2 * Modulus) % Modulus

\* ------------------------------------------------- decimal conversions
DigitChars == <<"0", "1", "2", "3", "4", "5", "6", "7", "8", "9">>

RECURSIVE Digits(_)
Digits(n) == IF n < 10 THEN <<DigitChars[n + 1]>>
             ELSE Append(Digits(n \div 10), DigitChars[(n % 10) + 1])

\* i128::to_string / u128::to_string
to_string(x) == IF x < 0 THEN <<"-">> \o Digits(0 - x) ELSE Digits(x)

DigitValue(c) == (CHOOSE i \in 1..10 : DigitChars[i] = c) - 1

RECURSIVE ParseDigits(_)
ParseDigits(s) == IF Len(s) = 0 THEN 0
                  ELSE 10 * ParseDigits(SubSeq(s, 1, Len(s) - 1)) + DigitValue(s[Len(s)])

\* BigDecimal::from_str on the output of to_string
BigDecimal_from_str(s) == IF s[1] = "-" THEN 0 - ParseDigits(Tail(s)) ELSE ParseDigits(s)

\* ------------------------------------------------------------- LRU cache
\* SizedCache<AccountId, Balances>: a sequence of entries, most recently used
\* first, of at most CacheCapacity entries.
CacheKeys(c) == {c[i].k : i \in 1..Len(c)}

CacheIndex(c, k) == CHOOSE i \in 1..Len(c) : c[i].k = k

CacheRemove(c, i) == SubSeq(c, 1, i - 1) \o SubSeq(c, i + 1, Len(c))

\* cache_get: is there an entry (Some / None)
cache_get_hit(c, k) == k \in CacheKeys(c)

\* cache_get: the value of the entry found
cache_get_value(c, k) == c[CacheIndex(c, k)].v

\* cache_get: the cache after a hit (the entry becomes the most recent one)
cache_get_touch(c, k) == <<c[CacheIndex(c, k)]>> \o CacheRemove(c, CacheIndex(c, k))

\* cache_set: insert or replace; a new key pushes the least recently used
\* entry out when the capacity is exceeded
cache_set(c, k, v) ==
    IF k \in CacheKeys(c)
    THEN <<[k |-> k, v |-> v]>> \o CacheRemove(c, CacheIndex(c, k))
    ELSE LET grown == <<[k |-> k, v |-> v]>> \o c
         IN  IF Len(grown) > CacheCapacity THEN SubSeq(grown, 1, CacheCapacity) ELSE grown

\* ---------------------------------------------------------------- inputs
ValidatorAccountsUpdate == "ValidatorAccountsUpdate"

\* the causes of the first match arm (lines 86-92)
PanicCauses == {"NotWritableToDisk", "InitialState", "UpdatedDelayedReceipts",
                "Migration", "Resharding"}

\* the remaining variants of StateChangeCauseView, the `_` arm (line 133)
RemainingCauses == {"TransactionProcessing", "ActionReceiptProcessingStarted",
                    "ActionReceiptGasReward", "ReceiptProcessing", "PostponedReceipt"}

Causes == {ValidatorAccountsUpdate} \cup PanicCauses \cup RemainingCauses

\* (amount, locked) pairs carried by validator account updates
StakeUpdates == {<<1, 0>>, <<5, 1>>}

\* tokens_burnt of a transaction outcome
Burnts == {3}

\* what the remote account query answers for the parent block
RemoteSnapshots == {<<2, 0>>, <<6, 1>>}

NoStateChange == [value |-> "none", cause |-> "none", account_id |-> "none",
                  amount |-> 0, locked |-> 0]

\* StateChangeWithCauseView with an AccountUpdate value, validator cause
ValidatorUpdates ==
    {[value |-> "AccountUpdate", cause |-> ValidatorAccountsUpdate, account_id |-> a,
      amount |-> s[1], locked |-> s[2]] : a \in Accounts, s \in StakeUpdates}

\* AccountUpdate values with any other cause
OtherCauseUpdates ==
    {[value |-> "AccountUpdate", cause |-> c, account_id |-> "a",
      amount |-> 1, locked |-> 0] : c \in Causes \ {ValidatorAccountsUpdate}}

\* values that are no AccountUpdate
OtherValues ==
    {[value |-> v, cause |-> c, account_id |-> "a", amount |-> 0, locked |-> 0] :
       v \in {"DataUpdate"}, c \in {ValidatorAccountsUpdate, "Migration"}}

NoTransaction == [executor_id |-> "none", tokens_burnt |-> 0, hash |-> 0]

Transactions(n) ==
    {[executor_id |-> a, tokens_burnt |-> b, hash |-> n] : a \in Accounts, b \in Burnts}

NoBalances == <<0, 0>>

\* --------------------------------------------------------------- records
\* lines 101-104: the exact differences of the casts
delta_liquid_amount(ev, prev) == as_i128(ev.amount) - as_i128(prev[1])
delta_locked_amount(ev, prev) == as_i128(ev.locked) - as_i128(prev[2])

validator_overflows(ev, prev) ==
    i128_overflows(delta_liquid_amount(ev, prev)) \/ i128_overflows(delta_locked_amount(ev, prev))

\* lines 112-131.  source_index is no field of BalanceChange: it keeps the
\* position of the source event in its extractor's iteration, for the ordering
\* properties only
ValidatorBalanceChange(ev, prev, t, ts, n) ==
    [block_timestamp |-> ts,
     transaction_hash |-> 0,
     affected_account_id |-> ev.account_id,
     direction |-> "NONE",
     cause |-> "VALIDATOR_ACCOUNTS_UPDATE",
     delta_liquid_amount |->
         BigDecimal_from_str(to_string(wrapping_i128(delta_liquid_amount(ev, prev)))),
     absolute_liquid_amount |-> BigDecimal_from_str(to_string(ev.amount)),
     delta_locked_amount |->
         BigDecimal_from_str(to_string(wrapping_i128(delta_locked_amount(ev, prev)))),
     absolute_locked_amount |-> BigDecimal_from_str(to_string(ev.locked)),
     shard_id |-> t,
     index_in_chunk |-> 0,
     source_index |-> n]

\* line 156
new_liquid_amount(tx, prev) == wrapping_u128(prev[1] - tx.tokens_burnt)

new_liquid_overflows(tx, prev) == u128_overflows(prev[1] - tx.tokens_burnt)

\* line 173: -(tokens_burnt as i128)
negated_burnt(tx) == 0 - as_i128(tx.tokens_burnt)

\* lines 163-182
TransactionBalanceChange(tx, prev, t, ts, n) ==
    [block_timestamp |-> ts,
     transaction_hash |-> tx.hash,
     affected_account_id |-> tx.executor_id,
     direction |-> "ACTION_FROM_AFFECTED_ACCOUNT",
     cause |-> "TRANSACTION_PROCESSING",
     delta_liquid_amount |-> BigDecimal_from_str(to_string(wrapping_i128(negated_burnt(tx)))),
     absolute_liquid_amount |-> BigDecimal_from_str(to_string(new_liquid_amount(tx, prev))),
     delta_locked_amount |-> 0,
     absolute_locked_amount |-> BigDecimal_from_str(to_string(prev[2])),
     shard_id |-> t,
     index_in_chunk |-> 0,
     source_index |-> n]

\* enumerate as it would be with the numbering starting at one
enumerate_from_one(changes) ==
    [i \in 1..Len(changes) |-> [changes[i] EXCEPT !.index_in_chunk = i]]

\* lines 56-58: index_in_chunk is the position in the concatenation
enumerate(changes) ==
    [i \in 1..Len(changes) |-> [changes[i] EXCEPT !.index_in_chunk = i - 1]]

\* chunked_insert: the next sub-batch of at most `size` records after `done` records
next_sub_batch(changes, done, size) ==
    SubSeq(changes, done + 1, IF done + size < Len(changes) THEN done + size ELSE Len(changes))

\* ----------------------------------------------------------------- state
VARIABLES
    cache,              \* the shared BalancesCache (behind the mutex)
    lock,               \* the shard task holding the cache mutex, 0 when free
    running,            \* the shard task try_join_all is polling, 0 between polls
    pc,                 \* where each shard task is
    extractor,          \* which extractor each shard task runs
    state_change,       \* the state change of the current iteration (line 71)
    transaction,        \* the transaction of the current iteration (line 147)
    prev_balances,      \* line 94 / line 149
    changes,            \* the Vec<BalanceChange> of each shard task
    stored,             \* the records of this block each shard task has inserted
    state_changes_read, \* how many state changes each task has iterated over
    transactions_read,  \* how many transactions each task has iterated over
    status,             \* store_balance_changes: idle, running, ok, err, panic
    error,              \* the error store_balance_changes returned
    block,              \* number of blocks handed to store_balance_changes
    remote,             \* the answers the remote query has given at block_header.prev_hash
    overflow_checks,    \* the build: arithmetic overflow panics (TRUE) or wraps
    shard_count,        \* shards.len(): the shards every block of the run has
    events,             \* history: state changes and transactions read so far
    resolved,           \* history: successful remote queries per account
    evicted_balances,   \* history: the balances an account had when last evicted
    last_emitted,       \* history: absolute amounts of the last record per account
    first_output        \* the batches of an earlier invocation on the same input (Replay)

task_vars == <<pc, extractor, state_change, transaction, prev_balances, changes,
               state_changes_read, transactions_read>>
history_vars == <<events, resolved, evicted_balances, last_emitted, first_output>>
vars == <<cache, lock, running, task_vars, stored, status, error, block, remote,
          overflow_checks, shard_count, history_vars>>

Nothing == <<0 - 1, 0 - 1>>

\* first_output before any invocation was replayed
Unset == <<>>

Init ==
    /\ cache = <<>>
    /\ lock = 0
    /\ running = 0
    /\ pc = [t \in Shards |-> "idle"]
    /\ extractor = [t \in Shards |-> "validator"]
    /\ state_change = [t \in Shards |-> NoStateChange]
    /\ transaction = [t \in Shards |-> NoTransaction]
    /\ prev_balances = [t \in Shards |-> NoBalances]
    /\ changes = [t \in Shards |-> <<>>]
    /\ stored = [t \in Shards |-> <<>>]
    /\ state_changes_read = [t \in Shards |-> 0]
    /\ transactions_read = [t \in Shards |-> 0]
    /\ status = "idle"
    /\ error = "none"
    /\ block = 0
    /\ remote = [a \in Accounts |-> Nothing]
    /\ events = 0
    /\ overflow_checks \in BOOLEAN
    /\ shard_count \in 1..NumShards
    /\ resolved = [a \in Accounts |-> 0]
    /\ evicted_balances = [a \in Accounts |-> Nothing]
    /\ last_emitted = [a \in Accounts |-> Nothing]
    /\ first_output = Unset

\* the shard tasks store_balance_changes starts for a block
ActiveShards == 1..shard_count

\* the account the current iteration of task t is about
account_id(t) ==
    IF extractor[t] = "validator" THEN state_change[t].account_id
    ELSE transaction[t].executor_id

\* the entries a cache_set of key k pushes out of cache c
EvictedBy(c, k) == CacheKeys(c) \ CacheKeys(cache_set(c, k, NoBalances))

\* history of a cache_set(k, ..) on the current cache: the balances of the
\* entries pushed out are kept until the account is stored again
RecordEviction(k) ==
    evicted_balances' = [a \in Accounts |->
                     IF a \in EvictedBy(cache, k) THEN cache_get_value(cache, a)
                     ELSE IF a = k THEN Nothing ELSE evicted_balances[a]]

\* ------------------------------------------------- leaving the invocation
\* propagate_error as it would be with join_all and the results dropped: the
\* shard task ends with the error, the others run on, nothing is returned
propagate_error_swallowed(t, e) ==
    /\ pc' = [pc EXCEPT ![t] = "failed"]
    /\ lock' = IF lock = t THEN 0 ELSE lock
    /\ running' = 0
    /\ UNCHANGED <<status, error>>

\* lines 24, 41, 52, 59: `?` ends the shard task with the error; try_join_all
\* returns the first error and drops the shard tasks still running (a dropped
\* task gives up the mutex guard it holds)
propagate_error(t, e) ==
    /\ pc' = [u \in Shards |-> IF u = t THEN "failed"
                               ELSE IF pc[u] \in {"done", "idle"} THEN pc[u] ELSE "cancelled"]
    /\ lock' = 0
    /\ running' = 0
    /\ status' = "err"
    /\ error' = e

\* a panic unwinds out of store_balance_changes: nothing returns
unwind(t) ==
    /\ pc' = [u \in Shards |-> IF u = t THEN "panicked"
                               ELSE IF pc[u] \in {"done", "idle"} THEN pc[u] ELSE "cancelled"]
    /\ lock' = 0
    /\ running' = 0
    /\ status' = "panic"
    /\ error' = "none"

\* ------------------------------------------------- store_balance_changes
\* try_join_all polls the shard tasks one at a time in the caller's task: a
\* shard task runs until it reaches an await, where another one may be polled
Polled(t) == running \in {0, t}

\* lines 14-25: one shard task per shard, all started together
StartBlock ==
    /\ status \in {"idle", "ok", "err"}
    /\ block < MaxBlocks
    /\ block' = block + 1
    /\ status' = "running"
    /\ error' = "none"
    /\ remote' = [a \in Accounts |-> Nothing]
    /\ pc' = [t \in Shards |-> IF t \in ActiveShards THEN "loop" ELSE "idle"]
    /\ extractor' = [t \in Shards |-> "validator"]
    /\ state_change' = [t \in Shards |-> NoStateChange]
    /\ transaction' = [t \in Shards |-> NoTransaction]
    /\ prev_balances' = [t \in Shards |-> NoBalances]
    /\ changes' = [t \in Shards |-> <<>>]
    /\ stored' = [t \in Shards |-> <<>>]
    /\ state_changes_read' = [t \in Shards |-> 0]
    /\ transactions_read' = [t \in Shards |-> 0]
    /\ UNCHANGED <<cache, lock, running, overflow_checks, shard_count, history_vars>>

\* ------------------------- store_validator_accounts_update_for_chunk
AtStateChanges(t) ==
    /\ status = "running"
    /\ Polled(t)
    /\ pc[t] = "loop"
    /\ extractor[t] = "validator"

ReadStateChange(t, ev) ==
    /\ state_changes_read[t] < MaxStateChanges \div shard_count
    /\ events < MaxEvents
    /\ events' = events + 1
    /\ state_change' = [state_change EXCEPT ![t] = ev]
    /\ state_changes_read' = [state_changes_read EXCEPT ![t] = @ + 1]

\* StateChangeOtherValue as it would be if the value were handled like an
\* account update of a validator
StateChangeOtherValue_resolved(t) ==
    /\ AtStateChanges(t)
    /\ \E ev \in OtherValues : ReadStateChange(t, ev)
    /\ pc' = [pc EXCEPT ![t] = "get"]
    /\ running' = 0
    /\ UNCHANGED <<cache, lock, extractor, transaction, prev_balances, changes,
                   stored, transactions_read, status, error, block, remote,
                   overflow_checks, shard_count, resolved, evicted_balances, last_emitted,
                   first_output>>

\* lines 74-83: a value that is no AccountUpdate: continue
StateChangeOtherValue(t) ==
    /\ AtStateChanges(t)
    /\ \E ev \in OtherValues : ReadStateChange(t, ev)
    /\ running' = t
    /\ UNCHANGED <<cache, lock, pc, extractor, transaction, prev_balances, changes,
                   stored, transactions_read, status, error, block, remote,
                   overflow_checks, shard_count, resolved, evicted_balances, last_emitted, first_output>>

\* StateChangePanic as it would be if the arm of lines 86-92 skipped the event
StateChangePanic_skipped(t) ==
    /\ AtStateChanges(t)
    /\ \E ev \in OtherCauseUpdates : ev.cause \in PanicCauses /\ ReadStateChange(t, ev)
    /\ running' = t
    /\ UNCHANGED <<cache, lock, pc, extractor, transaction, prev_balances, changes,
                   stored, transactions_read, status, error, block, remote,
                   overflow_checks, shard_count, resolved, evicted_balances, last_emitted, first_output>>

\* lines 86-92: panic!("let's debug it")
StateChangePanic(t) ==
    /\ AtStateChanges(t)
    /\ \E ev \in OtherCauseUpdates : ev.cause \in PanicCauses /\ ReadStateChange(t, ev)
    /\ unwind(t)
    /\ UNCHANGED <<cache, extractor, transaction, prev_balances, changes,
                   stored, transactions_read, block, remote, overflow_checks, shard_count,
                   resolved, evicted_balances, last_emitted, first_output>>

\* line 133: `_ => continue`
StateChangeRemainingCause(t) ==
    /\ AtStateChanges(t)
    /\ \E ev \in OtherCauseUpdates : ev.cause \in RemainingCauses /\ ReadStateChange(t, ev)
    /\ running' = t
    /\ UNCHANGED <<cache, lock, pc, extractor, transaction, prev_balances, changes,
                   stored, transactions_read, status, error, block, remote,
                   overflow_checks, shard_count, resolved, evicted_balances, last_emitted, first_output>>

\* lines 93-99: call get_previous_balance, up to its lock().await
StateChangeValidator(t) ==
    /\ AtStateChanges(t)
    /\ \E ev \in ValidatorUpdates : ReadStateChange(t, ev)
    /\ pc' = [pc EXCEPT ![t] = "get"]
    /\ running' = 0
    /\ UNCHANGED <<cache, lock, extractor, transaction, prev_balances, changes,
                   stored, transactions_read, status, error, block, remote,
                   overflow_checks, shard_count, resolved, evicted_balances, last_emitted, first_output>>

\* lines 43-44, 56-59: the shard has no chunk; number the records and insert
ChunkNone(t) ==
    /\ AtStateChanges(t)
    /\ changes' = [changes EXCEPT ![t] = enumerate(@)]
    /\ pc' = [pc EXCEPT ![t] = "insert"]
    /\ state_change' = [state_change EXCEPT ![t] = NoStateChange]
    /\ running' = 0
    /\ UNCHANGED <<cache, lock, extractor, transaction, prev_balances, stored,
                   state_changes_read, transactions_read, status, error, block, remote,
                   overflow_checks, shard_count, history_vars>>

\* lines 43, 45-53: the shard has a chunk; go on with its transactions
ChunkSome(t) ==
    /\ AtStateChanges(t)
    /\ extractor' = [extractor EXCEPT ![t] = "transaction"]
    /\ state_change' = [state_change EXCEPT ![t] = NoStateChange]
    /\ running' = t
    /\ UNCHANGED <<cache, lock, pc, transaction, prev_balances, changes, stored,
                   state_changes_read, transactions_read, status, error, block, remote,
                   overflow_checks, shard_count, history_vars>>

\* -------------------- store_transaction_execution_outcomes_for_chunk
AtTransactions(t) ==
    /\ status = "running"
    /\ Polled(t)
    /\ pc[t] = "loop"
    /\ extractor[t] = "transaction"

\* lines 147-154: call get_previous_balance, up to its lock().await
NextTransaction(t) ==
    /\ AtTransactions(t)
    /\ transactions_read[t] < MaxTransactions \div shard_count
    /\ events < MaxEvents
    /\ \E tx \in Transactions(transactions_read[t] + 1) :
          transaction' = [transaction EXCEPT ![t] = tx]
    /\ transactions_read' = [transactions_read EXCEPT ![t] = @ + 1]
    /\ pc' = [pc EXCEPT ![t] = "get"]
    /\ events' = events + 1
    /\ running' = 0
    /\ UNCHANGED <<cache, lock, extractor, state_change, prev_balances, changes, stored,
                   state_changes_read, status, error, block, remote, overflow_checks, shard_count,
                   resolved, evicted_balances, last_emitted, first_output>>

\* lines 218, 56-59: no transaction is left; number the records and insert
EndTransactions(t) ==
    /\ AtTransactions(t)
    /\ changes' = [changes EXCEPT ![t] = enumerate(@)]
    /\ pc' = [pc EXCEPT ![t] = "insert"]
    /\ transaction' = [transaction EXCEPT ![t] = NoTransaction]
    /\ running' = 0
    /\ UNCHANGED <<cache, lock, extractor, state_change, prev_balances, stored,
                   state_changes_read, transactions_read, status, error, block, remote,
                   overflow_checks, shard_count, history_vars>>

\* -------------------------------------------------- get_previous_balance
\* lines 101-104 and 156 run when get_previous_balance has returned `balances`:
\* an overflowing subtraction panics in a build with overflow checks
PanicsAfterGet(t, balances) ==
    /\ overflow_checks
    /\ IF extractor[t] = "validator"
       THEN validator_overflows(state_change[t], balances)
       ELSE new_liquid_overflows(transaction[t], balances)

\* ReturnBalances as it would be if the guard of get_previous_balance were
\* still held when the caller goes on to set_new_balances
ReturnBalances_lock_kept(t, balances) ==
    /\ prev_balances' = [prev_balances EXCEPT ![t] = balances]
    /\ IF PanicsAfterGet(t, balances)
       THEN unwind(t)
       ELSE /\ pc' = [pc EXCEPT ![t] = "set"]
            /\ lock' = t
            /\ running' = 0
            /\ UNCHANGED <<status, error>>

\* the caller goes on to set_new_balances, up to its lock().await
ReturnBalances(t, balances) ==
    /\ prev_balances' = [prev_balances EXCEPT ![t] = balances]
    /\ IF PanicsAfterGet(t, balances)
       THEN unwind(t)
       ELSE /\ pc' = [pc EXCEPT ![t] = "set"]
            /\ lock' = 0
            /\ running' = 0
            /\ UNCHANGED <<status, error>>

\* lines 227-228, 236-239: lock, hit, unlock
GetPreviousBalanceHit(t) ==
    /\ status = "running"
    /\ Polled(t)
    /\ pc[t] = "get"
    /\ lock = 0
    /\ cache_get_hit(cache, account_id(t))
    /\ cache' = cache_get_touch(cache, account_id(t))
    /\ ReturnBalances(t, cache_get_value(cache, account_id(t)))
    /\ UNCHANGED <<extractor, state_change, transaction, changes, stored,
                   state_changes_read, transactions_read, block, remote,
                   overflow_checks, shard_count, history_vars>>

\* GetPreviousBalanceMiss as it would be if the guard were dropped before the
\* remote query is awaited
GetPreviousBalanceMiss_unlocked(t) ==
    /\ status = "running"
    /\ Polled(t)
    /\ pc[t] = "get"
    /\ lock = 0
    /\ ~cache_get_hit(cache, account_id(t))
    /\ pc' = [pc EXCEPT ![t] = "query"]
    /\ running' = 0
    /\ UNCHANGED <<cache, lock, extractor, state_change, transaction, prev_balances,
                   changes, stored, state_changes_read, transactions_read, status, error,
                   block, remote, overflow_checks, shard_count, history_vars>>

\* lines 227-231: lock, miss, send the remote query and wait for it with the
\* lock held
GetPreviousBalanceMiss(t) ==
    /\ status = "running"
    /\ Polled(t)
    /\ pc[t] = "get"
    /\ lock = 0
    /\ ~cache_get_hit(cache, account_id(t))
    /\ lock' = t
    /\ pc' = [pc EXCEPT ![t] = "query"]
    /\ running' = 0
    /\ UNCHANGED <<cache, extractor, state_change, transaction, prev_balances, changes,
                   stored, state_changes_read, transactions_read, status, error, block,
                   remote, overflow_checks, shard_count, history_vars>>

\* what the remote query can answer for account a at block_header.prev_hash:
\* the account view at a block is fixed, so a second query in the same block
\* gets the first one's answer
RemoteAnswers(a) == IF remote[a] = Nothing THEN RemoteSnapshots ELSE {remote[a]}

\* RemoteQueryOk as it would be without the cache_set of line 233
RemoteQueryOk_not_stored(t) ==
    /\ status = "running"
    /\ Polled(t)
    /\ pc[t] = "query"
    /\ \E balances \in RemoteAnswers(account_id(t)) :
          /\ remote' = [remote EXCEPT ![account_id(t)] = balances]
          /\ ReturnBalances(t, balances)
    /\ resolved' = [resolved EXCEPT ![account_id(t)] = @ + 1]
    /\ UNCHANGED <<cache, extractor, state_change, transaction, changes, stored,
                   state_changes_read, transactions_read, block,
                   overflow_checks, shard_count, events, evicted_balances, last_emitted, first_output>>

\* lines 231-239, 271-275: the query answers; store the balances, unlock
RemoteQueryOk(t) ==
    /\ status = "running"
    /\ Polled(t)
    /\ pc[t] = "query"
    /\ \E balances \in RemoteAnswers(account_id(t)) :
          /\ remote' = [remote EXCEPT ![account_id(t)] = balances]
          /\ cache' = cache_set(cache, account_id(t), balances)
          /\ ReturnBalances(t, balances)
    /\ RecordEviction(account_id(t))
    /\ resolved' = [resolved EXCEPT ![account_id(t)] = @ + 1]
    /\ UNCHANGED <<extractor, state_change, transaction, changes, stored,
                   state_changes_read, transactions_read, block,
                   overflow_checks, shard_count, events, last_emitted, first_output>>

\* RemoteQueryFail as it would be if a failed query stored default balances
RemoteQueryFail_default_stored(t) ==
    /\ status = "running"
    /\ Polled(t)
    /\ pc[t] = "query"
    /\ cache' = cache_set(cache, account_id(t), NoBalances)
    /\ propagate_error(t, "ResolutionError")
    /\ UNCHANGED <<extractor, state_change, transaction, prev_balances, changes,
                   stored, state_changes_read, transactions_read, block, remote,
                   overflow_checks, shard_count, history_vars>>

\* lines 231, 271, 276-280: the call fails or answers no ViewAccount
RemoteQueryFail(t) ==
    /\ status = "running"
    /\ Polled(t)
    /\ pc[t] = "query"
    /\ propagate_error(t, "ResolutionError")
    /\ UNCHANGED <<cache, extractor, state_change, transaction, prev_balances, changes,
                   stored, state_changes_read, transactions_read, block, remote,
                   overflow_checks, shard_count, history_vars>>

\* ------------------------------------------------------ set_new_balances
Emit(t, record) ==
    /\ changes' = [changes EXCEPT ![t] = Append(@, record)]
    /\ last_emitted' = [last_emitted EXCEPT ![record.affected_account_id] =
                          <<record.absolute_liquid_amount, record.absolute_locked_amount>>]

\* lines 106-131: lock, set, unlock; push the record; next iteration
SetNewBalancesValidator(t) ==
    /\ status = "running"
    /\ Polled(t)
    /\ pc[t] = "set"
    /\ extractor[t] = "validator"
    /\ lock = 0
    /\ cache' = cache_set(cache, account_id(t),
                          <<state_change[t].amount, state_change[t].locked>>)
    /\ RecordEviction(account_id(t))
    /\ Emit(t, ValidatorBalanceChange(state_change[t], prev_balances[t], t, block,
                                      state_changes_read[t]))
    /\ pc' = [pc EXCEPT ![t] = "loop"]
    /\ running' = t
    /\ UNCHANGED <<lock, extractor, state_change, transaction, prev_balances, stored,
                   state_changes_read, transactions_read, status, error, block, remote,
                   overflow_checks, shard_count, events, resolved, first_output>>

\* lines 157-182: lock, set, unlock; push the record; next iteration.  The
\* negation at line 173 panics in a build with overflow checks when it overflows.
SetNewBalancesTransaction(t) ==
    /\ status = "running"
    /\ Polled(t)
    /\ pc[t] = "set"
    /\ extractor[t] = "transaction"
    /\ lock = 0
    /\ cache' = cache_set(cache, account_id(t),
                          <<new_liquid_amount(transaction[t], prev_balances[t]),
                            prev_balances[t][2]>>)
    /\ RecordEviction(account_id(t))
    /\ IF overflow_checks /\ i128_overflows(negated_burnt(transaction[t]))
       THEN /\ unwind(t)
            /\ UNCHANGED <<changes, last_emitted>>
       ELSE /\ Emit(t, TransactionBalanceChange(transaction[t], prev_balances[t], t, block,
                                                transactions_read[t]))
            /\ pc' = [pc EXCEPT ![t] = "loop"]
            /\ running' = t
            /\ UNCHANGED <<lock, status, error>>
    /\ UNCHANGED <<extractor, state_change, transaction, prev_balances, stored,
                   state_changes_read, transactions_read, block, remote,
                   overflow_checks, shard_count, events, resolved, first_output>>

\* -------------------------------------------------------- chunked_insert
\* ChunkedInsertStep as it would be if the whole batch went into one insert
ChunkedInsertStep_whole(t) ==
    /\ status = "running"
    /\ Polled(t)
    /\ pc[t] = "insert"
    /\ Len(stored[t]) < Len(changes[t])
    /\ stored' = [stored EXCEPT ![t] = changes[t]]
    /\ running' = 0
    /\ UNCHANGED <<cache, lock, task_vars, status, error, block, remote,
                   overflow_checks, shard_count, history_vars>>

\* line 59: one sub-batch of at most ChunkSize records is inserted
ChunkedInsertStep(t) ==
    /\ status = "running"
    /\ Polled(t)
    /\ pc[t] = "insert"
    /\ Len(stored[t]) < Len(changes[t])
    /\ stored' = [stored EXCEPT ![t] =
                    @ \o next_sub_batch(changes[t], Len(stored[t]), ChunkSize)]
    /\ running' = 0
    /\ UNCHANGED <<cache, lock, task_vars, status, error, block, remote,
                   overflow_checks, shard_count, history_vars>>

\* ChunkedInsertFail as it would be if the failure emptied the cache
ChunkedInsertFail_cache_cleared(t) ==
    /\ status = "running"
    /\ Polled(t)
    /\ pc[t] = "insert"
    /\ Len(stored[t]) < Len(changes[t])
    /\ cache' = <<>>
    /\ propagate_error(t, "StorageError")
    /\ UNCHANGED <<extractor, state_change, transaction, prev_balances, changes,
                   stored, state_changes_read, transactions_read, block, remote,
                   overflow_checks, shard_count, history_vars>>

\* line 59: the insert of a sub-batch fails
ChunkedInsertFail(t) ==
    /\ status = "running"
    /\ Polled(t)
    /\ pc[t] = "insert"
    /\ Len(stored[t]) < Len(changes[t])
    /\ propagate_error(t, "StorageError")
    /\ UNCHANGED <<cache, extractor, state_change, transaction, prev_balances, changes,
                   stored, state_changes_read, transactions_read, block, remote,
                   overflow_checks, shard_count, history_vars>>

\* lines 59-60, 24: every sub-batch is in; the shard task returns Ok(()), and
\* try_join_all returns Ok when it was the last one
ChunkedInsertReturn(t) ==
    /\ status = "running"
    /\ Polled(t)
    /\ pc[t] = "insert"
    /\ Len(stored[t]) = Len(changes[t])
    /\ pc' = [pc EXCEPT ![t] = "done"]
    /\ status' = IF \A u \in ActiveShards \ {t} : pc[u] = "done" THEN "ok" ELSE status
    /\ running' = 0
    /\ UNCHANGED <<cache, lock, extractor, state_change, transaction, prev_balances,
                   changes, stored, state_changes_read, transactions_read, error, block,
                   remote, overflow_checks, shard_count, history_vars>>

\* --------------------------------------------------------- specification
Next ==
    \/ StartBlock
    \/ \E t \in Shards : StateChangeOtherValue(t)
    \/ \E t \in Shards : StateChangePanic(t)
    \/ \E t \in Shards : StateChangeRemainingCause(t)
    \/ \E t \in Shards : StateChangeValidator(t)
    \/ \E t \in Shards : ChunkNone(t)
    \/ \E t \in Shards : ChunkSome(t)
    \/ \E t \in Shards : NextTransaction(t)
    \/ \E t \in Shards : EndTransactions(t)
    \/ \E t \in Shards : GetPreviousBalanceHit(t)
    \/ \E t \in Shards : GetPreviousBalanceMiss(t)
    \/ \E t \in Shards : RemoteQueryOk(t)
    \/ \E t \in Shards : RemoteQueryFail(t)
    \/ \E t \in Shards : SetNewBalancesValidator(t)
    \/ \E t \in Shards : SetNewBalancesTransaction(t)
    \/ \E t \in Shards : ChunkedInsertStep(t)
    \/ \E t \in Shards : ChunkedInsertFail(t)
    \/ \E t \in Shards : ChunkedInsertReturn(t)

Spec == Init /\ [][Next]_vars

\* ------------------------------------------------------------- fairness
\* a step of some shard task
TaskStep ==
    \E t \in Shards :
        \/ StateChangeOtherValue(t) \/ StateChangePanic(t) \/ StateChangeRemainingCause(t)
        \/ StateChangeValidator(t) \/ ChunkNone(t) \/ ChunkSome(t)
        \/ NextTransaction(t) \/ EndTransactions(t)
        \/ GetPreviousBalanceHit(t) \/ GetPreviousBalanceMiss(t)
        \/ RemoteQueryOk(t) \/ RemoteQueryFail(t)
        \/ SetNewBalancesValidator(t) \/ SetNewBalancesTransaction(t)
        \/ ChunkedInsertStep(t) \/ ChunkedInsertFail(t) \/ ChunkedInsertReturn(t)

\* lines 14-25: the first invocation of a run; the cache is empty
StartFirstBlock == block = 0 /\ StartBlock

FairNext ==
    \/ StartFirstBlock
    \/ TaskStep

\* One invocation under fair scheduling: the executor keeps polling the
\* invocation while one of its shard tasks can take a step, and every remote
\* query and every insert comes back (with an answer or a failure).
SpecFair == Init /\ [][FairNext]_vars /\ WF_vars(TaskStep)

\* ------------------------------------------- two invocations on one input
\* store_balance_changes is invoked, and then invoked again for the same block
\* with the cache as it was before the first invocation and with the remote
\* answers of the first invocation (remote is kept).  The second invocation
\* reads the state changes the first one read: a validator-update record holds
\* the account and the amounts of its event.

\* the state change shard task t reads next is the one it read at that place
\* in the first invocation
SameInput(t) ==
    \/ first_output = Unset
    \/ /\ state_changes_read'[t] <= Len(first_output[t])
       /\ LET r == first_output[t][state_changes_read'[t]]
          IN  /\ state_change'[t].account_id = r.affected_account_id
              /\ state_change'[t].amount = r.absolute_liquid_amount
              /\ state_change'[t].locked = r.absolute_locked_amount

\* shard task t has read every state change it read in the first invocation
SameInputEnd(t) ==
    first_output = Unset \/ state_changes_read[t] = Len(first_output[t])

\* lines 14-25: the second invocation, on the block and the cache of the first
Replay ==
    /\ status = "ok"
    /\ first_output = Unset
    /\ first_output' = changes
    /\ cache' = <<>>
    /\ status' = "running"
    /\ pc' = [t \in Shards |-> IF t \in ActiveShards THEN "loop" ELSE "idle"]
    /\ extractor' = [t \in Shards |-> "validator"]
    /\ state_change' = [t \in Shards |-> NoStateChange]
    /\ transaction' = [t \in Shards |-> NoTransaction]
    /\ prev_balances' = [t \in Shards |-> NoBalances]
    /\ changes' = [t \in Shards |-> <<>>]
    /\ stored' = [t \in Shards |-> <<>>]
    /\ state_changes_read' = [t \in Shards |-> 0]
    /\ transactions_read' = [t \in Shards |-> 0]
    /\ events' = 0
    /\ UNCHANGED <<lock, running, error, block, remote, overflow_checks, shard_count,
                   resolved, evicted_balances, last_emitted>>

DetNext ==
    \/ StartFirstBlock
    \/ Replay
    \/ \E t \in Shards : StateChangeValidator(t) /\ SameInput(t)
    \/ \E t \in Shards : ChunkNone(t) /\ SameInputEnd(t)
    \/ \E t \in Shards : GetPreviousBalanceHit(t)
    \/ \E t \in Shards : GetPreviousBalanceMiss(t)
    \/ \E t \in Shards : RemoteQueryOk(t)
    \/ \E t \in Shards : SetNewBalancesValidator(t)
    \/ \E t \in Shards : ChunkedInsertStep(t)
    \/ \E t \in Shards : ChunkedInsertReturn(t)

SpecDet == Init /\ [][DetNext]_vars

\* ------------------------------------------- one event, the whole range
\* A shard task has read one event and calls get_previous_balance (lines 94,
\* 149).  The amounts of the event, of the cache entry and of the remote answer
\* range over the whole unsigned width for the liquid part and over its
\* extreme values for the locked part.
ExtremeValues == {0, 1, Half - 1, Half, Modulus - 1}

WideBalances == {<<p, k>> : p \in u128, k \in ExtremeValues}

WideValidatorUpdates ==
    {[value |-> "AccountUpdate", cause |-> ValidatorAccountsUpdate, account_id |-> "a",
      amount |-> s[1], locked |-> s[2]] : s \in WideBalances}

WideTransactions ==
    {[executor_id |-> "a", tokens_burnt |-> b, hash |-> 1] : b \in u128}

ArithInit ==
    /\ lock = 0
    /\ running = 0
    /\ pc = [t \in Shards |-> IF t = 1 THEN "get" ELSE "idle"]
    /\ \/ /\ extractor = [t \in Shards |-> "validator"]
          /\ \E ev \in WideValidatorUpdates :
                state_change = [t \in Shards |-> IF t = 1 THEN ev ELSE NoStateChange]
          /\ transaction = [t \in Shards |-> NoTransaction]
          /\ state_changes_read = [t \in Shards |-> IF t = 1 THEN 1 ELSE 0]
          /\ transactions_read = [t \in Shards |-> 0]
       \/ /\ extractor = [t \in Shards |-> IF t = 1 THEN "transaction" ELSE "validator"]
          /\ state_change = [t \in Shards |-> NoStateChange]
          /\ \E tx \in WideTransactions :
                transaction = [t \in Shards |-> IF t = 1 THEN tx ELSE NoTransaction]
          /\ state_changes_read = [t \in Shards |-> 0]
          /\ transactions_read = [t \in Shards |-> IF t = 1 THEN 1 ELSE 0]
    /\ \E balances \in WideBalances :
          \/ /\ cache = <<[k |-> "a", v |-> balances]>>
             /\ remote = [a \in Accounts |-> Nothing]
          \/ /\ cache = <<>>
             /\ remote = [a \in Accounts |-> IF a = "a" THEN balances ELSE Nothing]
    /\ prev_balances = [t \in Shards |-> NoBalances]
    /\ changes = [t \in Shards |-> <<>>]
    /\ stored = [t \in Shards |-> <<>>]
    /\ status = "running"
    /\ error = "none"
    /\ block = 1
    /\ events = 1
    /\ overflow_checks \in BOOLEAN
    /\ shard_count = 1
    /\ resolved = [a \in Accounts |-> 0]
    /\ evicted_balances = [a \in Accounts |-> Nothing]
    /\ last_emitted = [a \in Accounts |-> Nothing]
    /\ first_output = Unset

ArithNext ==
    \/ \E t \in Shards : GetPreviousBalanceHit(t)
    \/ \E t \in Shards : GetPreviousBalanceMiss(t)
    \/ \E t \in Shards : RemoteQueryOk(t)
    \/ \E t \in Shards : SetNewBalancesValidator(t)
    \/ \E t \in Shards : SetNewBalancesTransaction(t)

SpecArith == ArithInit /\ [][ArithNext]_vars

\* ------------------------------------------- batches of more than ChunkSize
\* Every shard task has pushed its records and numbered them, and calls
\* chunked_insert (line 59): shard 1 with a batch of 0..MaxBatchLen records,
\* the other shards with an empty batch or one of ChunkSize + 2 records.
BatchOf(t, n) ==
    enumerate([i \in 1..n |->
                 ValidatorBalanceChange([value |-> "AccountUpdate",
                                         cause |-> ValidatorAccountsUpdate,
                                         account_id |-> "a", amount |-> 1, locked |-> 0],
                                        <<2, 0>>, t, 1, i)])

BatchInit ==
    /\ cache = <<[k |-> "a", v |-> <<1, 0>>]>>
    /\ lock = 0
    /\ running = 0
    /\ pc = [t \in Shards |-> "insert"]
    /\ extractor = [t \in Shards |-> "validator"]
    /\ state_change = [t \in Shards |-> NoStateChange]
    /\ transaction = [t \in Shards |-> NoTransaction]
    /\ prev_balances = [t \in Shards |-> <<2, 0>>]
    /\ \E n \in 0..MaxBatchLen : \E others \in {0, ChunkSize + 2} :
          changes = [t \in Shards |-> BatchOf(t, IF t = 1 THEN n ELSE others)]
    /\ stored = [t \in Shards |-> <<>>]
    /\ state_changes_read = [t \in Shards |-> Len(changes[t])]
    /\ transactions_read = [t \in Shards |-> 0]
    /\ status = "running"
    /\ error = "none"
    /\ block = 1
    /\ remote = [a \in Accounts |-> IF a = "a" THEN <<2, 0>> ELSE Nothing]
    /\ events = 0
    /\ overflow_checks \in BOOLEAN
    /\ shard_count = NumShards
    /\ resolved = [a \in Accounts |-> IF a = "a" THEN 1 ELSE 0]
    /\ evicted_balances = [a \in Accounts |-> Nothing]
    /\ last_emitted = [a \in Accounts |-> IF a = "a" THEN <<1, 0>> ELSE Nothing]
    /\ first_output = Unset

BatchNext ==
    \/ \E t \in Shards : ChunkedInsertStep(t)
    \/ \E t \in Shards : ChunkedInsertFail(t)
    \/ \E t \in Shards : ChunkedInsertReturn(t)

SpecBatch == BatchInit /\ [][BatchNext]_vars

\* =================================================================== claims

\* the shard tasks that have read an account's entry for an event and have not
\* yet written the entry back (between get_previous_balance and set_new_balances)
InReadModifyWrite(t) == status = "running" /\ pc[t] = "set"

\* C1: No lost update: every read-modify-write of an account's cache entry runs
\* with exclusive access, so no other shard task resolves or sets the same
\* account's entry between a task's read and its write.
C1_NoLostUpdate ==
    \A t \in Shards : \A u \in Shards \ {t} :
        InReadModifyWrite(t) /\ pc[u] \in {"query", "set"}
            => account_id(u) # account_id(t)

\* C2: Get-or-populate is one critical section: the lock is held from the cache
\* lookup across the remote query until the answer is stored, so at most one
\* remote query is in flight and no two tasks that miss on the same account
\* both query it.
C2_GetOrPopulateIsOneCriticalSection ==
    /\ Cardinality({t \in Shards : pc[t] = "query"}) <= 1
    /\ \A t \in Shards : pc[t] = "query" =>
          /\ lock = t
          /\ account_id(t) \notin CacheKeys(cache)
    /\ lock # 0 => pc[lock] = "query"

\* a shard task waits for the lock in get_previous_balance while another one
\* holds it across the remote query for the same, uncached account
C2_Witness ==
    \E t \in Shards : \E u \in Shards \ {t} :
        /\ pc[t] = "query"
        /\ pc[u] = "get"
        /\ account_id(u) = account_id(t)

\* C3 (as claimed): the remote query of an account succeeds at most once in a
\* run; no later event of the account triggers a second one.
C3_ExactlyOnceRemoteResolution == \A a \in Accounts : resolved[a] <= 1

\* C3 (amended): the answer of the remote query is cached, and the account is
\* queried again only after its entry was pushed out of the bounded cache: an
\* account is queried only while it has no entry, and an account that was
\* resolved before and has no entry was evicted since.
C3_OnceUnlessEvicted ==
    /\ \A t \in Shards : pc[t] = "query" => account_id(t) \notin CacheKeys(cache)
    /\ \A a \in Accounts :
          resolved[a] >= 1 /\ a \notin CacheKeys(cache) => evicted_balances[a] # Nothing

\* in a later block an event of an account resolved in an earlier block got
\* its previous balances from the cache, with no remote query in that block
C3_Witness ==
    \E t \in Shards :
        /\ block = 2
        /\ pc[t] = "set"
        /\ resolved[account_id(t)] = 1
        /\ remote[account_id(t)] = Nothing

\* a step in which shard task t pushes a record, and the record pushed
Emits(t) == Len(changes'[t]) = Len(changes[t]) + 1

Emitted(t) == changes'[t][Len(changes'[t])]

\* C4: Chained consistency: every record of an account continues the absolute
\* amounts of the account's previous record by its own deltas, within a shard,
\* across the shards of a block and across blocks.
C4_ChainedConsistency ==
    [][\A t \in Shards :
          Emits(t) /\ last_emitted[Emitted(t).affected_account_id] # Nothing =>
              LET r == Emitted(t)
                  before == last_emitted[r.affected_account_id]
              IN  /\ r.absolute_liquid_amount = before[1] + r.delta_liquid_amount
                  /\ r.absolute_locked_amount = before[2] + r.delta_locked_amount]_vars

\* C5: Per-record invariant: every record pushed by either extractor has
\* absolute = previous + delta for the liquid and for the locked amount, where
\* previous is what get_previous_balance returned for the event.
C5_PerRecordBalanceInvariant ==
    [][\A t \in Shards :
          Emits(t) =>
              LET r == Emitted(t)
              IN  /\ r.absolute_liquid_amount = prev_balances[t][1] + r.delta_liquid_amount
                  /\ r.absolute_locked_amount = prev_balances[t][2] + r.delta_locked_amount]_vars

IsTransactionRecord(r) == r.transaction_hash # 0

\* C6: In-chunk ordering: the batch a shard hands to storage is numbered
\* 0..n-1 without gap or duplicate, validator-update records come before
\* transaction records, and each group keeps the order of its source events.
C6_InChunkOrdering ==
    \A t \in Shards : pc[t] \in {"insert", "done"} =>
        LET batch == changes[t]
        IN  /\ \A i \in 1..Len(batch) : batch[i].index_in_chunk = i - 1
            /\ \A i \in 1..Len(batch) : \A j \in 1..Len(batch) :
                  i < j =>
                     /\ ~(IsTransactionRecord(batch[i]) /\ ~IsTransactionRecord(batch[j]))
                     /\ IsTransactionRecord(batch[i]) = IsTransactionRecord(batch[j])
                           => batch[i].source_index < batch[j].source_index
            /\ Len(stored[t]) <= Len(batch)
            /\ stored[t] = SubSeq(batch, 1, Len(stored[t]))

\* a batch of two validator-update records followed by a transaction record
\* is handed to storage
C6_Witness ==
    \E t \in Shards :
        /\ pc[t] = "insert"
        /\ Len(changes[t]) = 3
        /\ ~IsTransactionRecord(changes[t][2])
        /\ IsTransactionRecord(changes[t][3])

\* C7: Block-level all-or-nothing: when the invocation returns an error, no
\* record of the block has been inserted by any shard.
C7_AllOrNothing ==
    status = "err" => \A t \in Shards : stored[t] = <<>>

\* C8: Error propagation: the invocation returns Ok only when every shard
\* task has returned Ok; the error of a shard task is the invocation's error;
\* after the error nothing runs on (no remote query is sent again).
C8_ErrorPropagation ==
    /\ status = "ok" => \A t \in ActiveShards : pc[t] = "done"
    /\ (\E t \in Shards : pc[t] = "failed") => status = "err"
    /\ status = "err" =>
          /\ error \in {"ResolutionError", "StorageError"}
          /\ Cardinality({t \in Shards : pc[t] = "failed"}) = 1
          /\ \A t \in ActiveShards : pc[t] \in {"failed", "done", "cancelled"}
    /\ status \in {"idle", "running", "ok"} => error = "none"

\* the invocation returned the error of one shard task after another shard
\* task had completed
C8_Witness ==
    /\ status = "err"
    /\ \E t \in Shards : pc[t] = "failed"
    /\ \E t \in Shards : pc[t] = "done"

\* C9 (as claimed): every account update whose cause is not the validator
\* accounts update aborts processing.
C9_UnrecognizedCauseIsFatal ==
    \A t \in Shards :
        /\ state_change[t].value = "AccountUpdate"
        /\ state_change[t].cause # ValidatorAccountsUpdate
        => status = "panic"

\* C9 (amended): an account update whose cause is one of the five causes of
\* the panicking arm aborts processing; an account update with one of the
\* remaining causes is skipped without a record and the loop goes on; a
\* validator-update record only comes from a validator accounts update.
C9_CauseArms ==
    \A t \in Shards :
        LET sc == state_change[t]
            at_current(r) == ~IsTransactionRecord(r) /\ r.source_index = state_changes_read[t]
            records_of_current == {i \in 1..Len(changes[t]) : at_current(changes[t][i])}
        IN  sc.value = "AccountUpdate" =>
              /\ sc.cause \in PanicCauses => status = "panic" /\ pc[t] = "panicked"
              /\ sc.cause \in RemainingCauses =>
                    /\ status = "running"
                    /\ pc[t] = "loop"
                    /\ records_of_current = {}
              /\ records_of_current # {} => sc.cause = ValidatorAccountsUpdate

\* an account update with one of the remaining causes was read and the shard
\* task goes on
C9_Witness ==
    \E t \in Shards :
        /\ state_change[t].value = "AccountUpdate"
        /\ state_change[t].cause \in RemainingCauses
        /\ status = "running"

\* C10: Eviction is safe: when an account whose entry was evicted is resolved
\* again, the resolution returns the balances that were evicted.
C10_EvictionIsSafe ==
    [][\A a \in Accounts :
          resolved'[a] > resolved[a] /\ evicted_balances[a] # Nothing
              => remote'[a] = evicted_balances[a]]_vars

\* C11: Deterministic output: with the block input, the initial cache and the
\* remote answers fixed, every shard's batch (all fields of every record) is
\* the same in the second invocation as in the first, whatever the
\* interleaving of the shard tasks in either.
C11_DeterministicOutput ==
    first_output # Unset /\ status = "ok" =>
        \A t \in Shards : changes[t] = first_output[t]

\* C12: Fee-burn deltas: every record pushed by the transaction extractor has
\* delta_locked_amount 0 and delta_liquid_amount -tokens_burnt, for every
\* tokens_burnt of the unsigned range.
C12_FeeBurnDeltas ==
    [][\A t \in Shards :
          Emits(t) /\ extractor[t] = "transaction" =>
              /\ Emitted(t).delta_locked_amount = 0
              /\ Emitted(t).delta_liquid_amount = 0 - transaction[t].tokens_burnt]_vars

\* C13: Fee burn on a cache miss: when the account had no entry and the remote
\* query answered (p, k), the record of a transaction burning b has absolute
\* amounts (p - b, k) and the cache entry of the account becomes (p - b, k),
\* for every p, k and b.
C13_FeeBurnOnMiss ==
    [][\A t \in Shards :
          Emits(t) /\ extractor[t] = "transaction" /\ resolved[account_id(t)] = 1 =>
              LET p == remote[account_id(t)][1]
                  k == remote[account_id(t)][2]
                  b == transaction[t].tokens_burnt
              IN  /\ Emitted(t).absolute_liquid_amount = p - b
                  /\ Emitted(t).absolute_locked_amount = k
                  /\ cache_get_value(cache', account_id(t)) = <<p - b, k>>]_vars

\* C14: Validator update on a cache hit: when the account has the cached
\* balances (p, k) and the event sets it to (l, m), the record has the deltas
\* l - p and m - k and the absolute amounts l and m, no remote query is made,
\* and the cache entry is (l, m) when the shard task goes on to its next event.
C14_ValidatorUpdateOnHit ==
    [][\A t \in Shards :
          Emits(t) /\ extractor[t] = "validator" /\ resolved[account_id(t)] = 0 =>
              LET l == state_change[t].amount
                  m == state_change[t].locked
              IN  /\ prev_balances[t] = cache_get_value(cache, account_id(t))
                  /\ Emitted(t).delta_liquid_amount = l - prev_balances[t][1]
                  /\ Emitted(t).absolute_liquid_amount = l
                  /\ Emitted(t).delta_locked_amount = m - prev_balances[t][2]
                  /\ Emitted(t).absolute_locked_amount = m
                  /\ remote[account_id(t)] = Nothing
                  /\ cache_get_value(cache', account_id(t)) = <<l, m>>
                  /\ pc'[t] = "loop"]_vars

\* C15: No overflow in the delta arithmetic: for every previous and new
\* balance of the unsigned range, the deltas of a validator-update record are
\* the exact differences new - previous.
C15_ExactDelta ==
    [][\A t \in Shards :
          Emits(t) /\ extractor[t] = "validator" =>
              /\ Emitted(t).delta_liquid_amount =
                    state_change[t].amount - prev_balances[t][1]
              /\ Emitted(t).delta_locked_amount =
                    state_change[t].locked - prev_balances[t][2]]_vars

\* C16: Sub-batching: a batch is submitted as consecutive sub-batches of at
\* most ChunkSize records, each but the last of exactly ChunkSize, whose
\* concatenation in submission order is the batch; a shard task returns Ok only
\* when its whole batch is in; the failure of any sub-batch, the first or a
\* later one, ends the shard task and the invocation with the storage error.
C16_SubBatching ==
    [][\A t \in Shards :
          /\ stored'[t] # stored[t] =>
                LET size == Len(stored'[t]) - Len(stored[t])
                IN  /\ size >= 1
                    /\ size <= ChunkSize
                    /\ size < ChunkSize => Len(stored'[t]) = Len(changes[t])
                    /\ Len(stored[t]) % ChunkSize = 0
                    /\ stored'[t] = SubSeq(changes[t], 1, Len(stored'[t]))
          /\ pc[t] = "insert" /\ pc'[t] = "done" => stored[t] = changes[t]
          /\ pc[t] = "insert" /\ pc'[t] = "failed" =>
                /\ status' = "err"
                /\ error' = "StorageError"
                /\ \A u \in Shards : pc'[u] \notin {"insert", "loop", "get", "query", "set"}
          /\ status' = "ok" => stored[t] = changes[t]]_vars

\* a batch of 23 records went in as 10 and 10, the insert of the last 3 failed
\* and the invocation returned the error
C16_Witness ==
    \E t \in Shards :
        /\ Len(changes[t]) = 2 * ChunkSize + 3
        /\ Len(stored[t]) = 2 * ChunkSize
        /\ pc[t] = "failed"
        /\ status = "err"
        /\ error = "StorageError"

\* C17: Termination without deadlock: under fair scheduling every invocation
\* of store_balance_changes eventually ends, with success, with the error of a
\* shard task or with the fatal abort (panic) of one; no shard task waits for
\* the cache lock for ever.
C17_Termination ==
    (status = "running") ~> (status \in {"ok", "err", "panic"})

\* a shard task waits for the lock in get_previous_balance or set_new_balances
\* while another shard task holds it
C17_Witness ==
    \E t \in Shards :
        /\ status = "running"
        /\ pc[t] \in {"get", "set"}
        /\ lock \notin {0, t}

\* C18: Failed resolution leaves the cache untouched and the lock free: in the
\* step in which the remote query of a shard task fails, no entry is inserted
\* for the account, the cache is unchanged, and the lock is free afterwards.
C18_FailedResolutionLeavesCache ==
    [][\A t \in Shards :
          pc[t] = "query" /\ pc'[t] = "failed" =>
              /\ cache' = cache
              /\ account_id(t) \notin CacheKeys(cache')
              /\ lock = t
              /\ lock' = 0
              /\ error' = "ResolutionError"]_vars

\* a remote query failed while the cache held the entry of another account
C18_Witness ==
    /\ status = "err"
    /\ error = "ResolutionError"
    /\ lock = 0
    /\ \E t \in Shards :
          /\ pc[t] = "failed"
          /\ CacheKeys(cache) = Accounts \ {account_id(t)}

\* C19: No cache rollback on failure: the step in which the invocation returns
\* an error leaves the cache as the events processed so far have made it, and
\* so does the start of the next invocation.
C19_NoCacheRollback ==
    [][/\ status = "running" /\ status' = "err" => cache' = cache
       /\ status = "err" /\ status' = "running" => cache' = cache]_vars

\* the invocation returned an error and the cache holds balances set by an
\* event of the failed block, different from the account's balances before it
C19_Witness ==
    /\ status = "err"
    /\ \E a \in Accounts :
          /\ a \in CacheKeys(cache)
          /\ remote[a] # Nothing
          /\ last_emitted[a] = cache_get_value(cache, a)
          /\ cache_get_value(cache, a) # remote[a]

\* C20: Shard without a chunk: when a shard task goes from its state changes
\* straight to the insert, it has read no transaction, its batch is exactly
\* its validator-update records numbered from 0, and nothing is added later; a
\* state change whose value is no account update pushes no record, makes no
\* remote query and leaves the cache unchanged, whatever its cause.
C20_ShardWithoutChunk ==
    [][\A t \in Shards :
          /\ pc[t] = "loop" /\ extractor[t] = "validator" /\ pc'[t] = "insert" =>
                /\ transactions_read'[t] = 0
                /\ Len(changes'[t]) = Len(changes[t])
                /\ \A i \in 1..Len(changes'[t]) :
                      /\ ~IsTransactionRecord(changes'[t][i])
                      /\ changes'[t][i].index_in_chunk = i - 1
                      /\ changes'[t][i] = [changes[t][i] EXCEPT !.index_in_chunk = i - 1]
          /\ pc[t] \in {"insert", "done"} /\ extractor[t] = "validator" /\ block' = block =>
                /\ changes'[t] = changes[t]
                /\ transactions_read'[t] = 0
                /\ extractor'[t] = "validator"
          /\ state_changes_read'[t] = state_changes_read[t] + 1
                /\ state_change'[t].value # "AccountUpdate" =>
                /\ changes' = changes
                /\ cache' = cache
                /\ lock' = lock
                /\ remote' = remote
                /\ resolved' = resolved
                /\ pc' = pc
                /\ status' = status]_vars

\* a shard without a chunk hands over a batch of one validator-update record
\* after two state changes, one of which pushed no record
C20_Witness ==
    \E t \in Shards :
        /\ pc[t] = "insert"
        /\ extractor[t] = "validator"
        /\ Len(changes[t]) = 1
        /\ state_changes_read[t] = 2

====
